---- MODULE Spec2Model ----
(***************************************************************************)
(* A model of scrollomat's directive compiler, Scrollomat.compileScrollData *)
(* (src/src/bezier.ts).  The recursive closure requestForProcessing is     *)
(* modelled with an explicit call stack: one frame per activation, holding *)
(* the activation's locals (entry, instructionLines, resultHere, the       *)
(* position in the forEach over the directives and, inside an x / y        *)
(* directive, the locals that survive a nested call).                      *)
(***************************************************************************)
EXTENDS Integers, Sequences, FiniteSets, TLC

VARIABLES
    entries,          \* this.entries: the raw entries, in document order
    compilationMap,   \* compilationMap: name -> compiled record
    entriesToProcess, \* entriesToProcess: the entries not yet compiled
    stack,            \* the activations of requestForProcessing, innermost last
    status,           \* "running" | "done" | "TypeError" | "RangeError" | "Error"
    maxHeight,        \* Scrollomat.maxHeight
    compilationResult,     \* Object.values(compilationMap): the ids, as inserted
    currentScrollDistance, \* currentScrollDistance of the last update()
    styles,           \* element.style of every entry: display, top, left, opacity
    updates,          \* the number of calls of update() so far
    call,             \* the last direct call of an evaluator or of BezierEasing
    previous          \* the report of the compilation before the one under way

vars == <<entries, compilationMap, entriesToProcess, stack, status, maxHeight,
          compilationResult, currentScrollDistance, styles, updates, call, previous>>

\* What the compiler does not touch.
viewVars == <<currentScrollDistance, styles, updates, call, previous>>

(***************************************************************************)
(* Values.  A token of a directive is a word or an integer literal; NaN is  *)
(* what parseInt yields for anything else.  undefined / null are the empty  *)
(* option.                                                                  *)
(***************************************************************************)
NaN == -999999

None == <<>>
Some(v) == <<v>>

W(s) == [w |-> s, n |-> 0]
N(v) == [w |-> "#", n |-> v]

\* parseInt(dataParameter[k - 1]): k is 1-based here; a missing token is undefined.
ParseInt(dataParameter, k) ==
    IF k <= Len(dataParameter) /\ dataParameter[k].w = "#"
    THEN dataParameter[k].n
    ELSE NaN

Plus(a, b) == IF a = NaN \/ b = NaN THEN NaN ELSE a + b
Minus(a, b) == IF a = NaN \/ b = NaN THEN NaN ELSE a - b

Min(a, b) == IF a <= b THEN a ELSE b

\* The least value in place of the greatest.
MathMax_Least(S) ==
    IF NaN \in S THEN NaN
    ELSE CHOOSE m \in S : \A x \in S : m <= x

\* Math.max(...xs) over the values in the non-empty set S: NaN if any value is NaN.
MathMax(S) ==
    IF NaN \in S THEN NaN
    ELSE CHOOSE m \in S : \A x \in S : x <= m

\* Array.prototype.indexOf on a token list: 0-based, -1 when absent.
IndexOf(arr, word) ==
    IF \E k \in 1..Len(arr) : arr[k].w = word
    THEN (CHOOSE k \in 1..Len(arr) :
              /\ arr[k].w = word
              /\ \A j \in 1..(k - 1) : arr[j].w # word) - 1
    ELSE -1

\* arr.splice(start, deleteCount, ...items) for 0 <= start: the array afterwards.
Splice(arr, start, deleteCount, items) ==
    LET s == Min(start, Len(arr))
        d == Min(deleteCount, Len(arr) - s)
    IN SubSeq(arr, 1, s) \o items \o SubSeq(arr, s + d + 1, Len(arr))

(***************************************************************************)
(* Parsing of an entry's instruction (lines 331-346).  An instruction is    *)
(* modelled after split(';'), trim and filter: a sequence of non-empty      *)
(* lines, each the sequence of its blank-separated tokens.                  *)
(***************************************************************************)
KnownKeywords == {"enter", "ease", "duration", "leave", "opacity-ease", "y", "x"}
Referents == {"with-entry", "with-exit", "after-entry", "after-exit"}

\* a.startsWith('leave ') / a.startsWith('y '): the keyword followed by a blank.
StartsWithLeave(l) == Len(l) >= 2 /\ l[1].w = "leave"
StartsWithY(l) == Len(l) >= 2 /\ l[1].w = "y"
NotStartsWithLeave(l) == ~StartsWithLeave(l)
NotStartsWithY(l) == ~StartsWithY(l)

\* The two sorts in the other order: `y` lines first, `leave` lines last.
SortLines_LeaveLast(ls) ==
    SelectSeq(SelectSeq(ls, NotStartsWithY), NotStartsWithLeave)
        \o SelectSeq(ls, StartsWithY) \o SelectSeq(ls, StartsWithLeave)

\* The two stable sorts of lines 344-345.
SortLeave(ls) == SelectSeq(ls, NotStartsWithLeave) \o SelectSeq(ls, StartsWithLeave)
SortY(ls) == SelectSeq(ls, NotStartsWithY) \o SelectSeq(ls, StartsWithY)
SortLines(ls) == SortY(SortLeave(ls))

IsAbsoluteText(text) == Len(text) >= 1 /\ text[1] = <<W("!absolute")>>
InstructionLines(text) == SortLines(IF IsAbsoluteText(text) THEN Tail(text) ELSE text)

(***************************************************************************)
(* Compiled records.                                                        *)
(***************************************************************************)
EmptyAbsoluteData == [value |-> None, destination |-> None]

(***************************************************************************)
(* Evaluators.  A closure stored in scrollListeners is modelled by what it  *)
(* captured: its kind (which function body it is) and the values its body   *)
(* reads from its defining scope.  A body that reads a field of resultHere  *)
(* reads it when it is called, so it names the record (rec) instead.        *)
(***************************************************************************)
\* () => '0vw' (lines 319-321).
ZeroEvaluator == [kind |-> "zero"]
\* () => '1' (lines 325-327).
OneEvaluator == [kind |-> "one"]
\* Scrollomat.getEasingFunction(easingCurve, entry) (lines 210-215).
getEasingFunction(easingCurve) == [kind |-> "ease", curve |-> easingCurve]

\* The scrollListeners of the initial resultHere (lines 318-328).
DefaultListeners ==
    [ xEasingFunction |-> ZeroEvaluator,
      yEasingFunction |-> getEasingFunction(<<0, 0, 1, 1>>),
      opacityEasingFunction |-> OneEvaluator ]

\* An initial resultHere whose duration does not match its leaveAt.
DefaultResult_ZeroDuration(isAbs) ==
    [ enterAt |-> 0,
      leaveAt |-> 100,
      yEasingCurve |-> <<0, 0, 1, 1>>,
      duration |-> 0,
      opacityEasingCurve |-> <<0, 1, 1, 1>>,
      isAbsolute |-> isAbs,
      absoluteX |-> EmptyAbsoluteData,
      absoluteY |-> EmptyAbsoluteData,
      scrollListeners |-> DefaultListeners ]

\* The initial resultHere of lines 299-329 (and isAbsolute of 337-341).
DefaultResult(isAbs) ==
    [ enterAt |-> 0,
      leaveAt |-> 100,
      yEasingCurve |-> <<0, 0, 1, 1>>,
      duration |-> 100,
      opacityEasingCurve |-> <<0, 1, 1, 1>>,
      isAbsolute |-> isAbs,
      absoluteX |-> EmptyAbsoluteData,
      absoluteY |-> EmptyAbsoluteData,
      scrollListeners |-> DefaultListeners ]

GetAxis(rec, key) == IF key = "absoluteX" THEN rec.absoluteX ELSE rec.absoluteY
SetAxis(rec, key, data) ==
    IF key = "absoluteX" THEN [rec EXCEPT !.absoluteX = data]
    ELSE [rec EXCEPT !.absoluteY = data]

\* entriesToProcess.find(e => e.name === id): the option of the first match.
Find(id) ==
    IF \E k \in 1..Len(entriesToProcess) : entriesToProcess[k].name = id
    THEN Some(entriesToProcess[CHOOSE k \in 1..Len(entriesToProcess) :
                  /\ entriesToProcess[k].name = id
                  /\ \A j \in 1..(k - 1) : entriesToProcess[j].name # id])
    ELSE None

\* A fresh activation of requestForProcessing(id), up to the start of the forEach.
NewFrame(entry) ==
    [ id |-> entry.name,
      lines |-> InstructionLines(entry.instruction),
      i |-> 1,
      pc |-> "start",
      isAbsolute |-> IsAbsoluteText(entry.instruction),
      resultHere |-> DefaultResult(IsAbsoluteText(entry.instruction)),
      absoluteKey |-> "absoluteX",
      owner |-> "self",
      prePipe |-> <<>>,
      likeIndex |-> -1,
      pipeIndex |-> -1,
      easingRef |-> "undefined" ]

(***************************************************************************)
(* The directive being processed by the innermost activation.              *)
(***************************************************************************)
top == stack[Len(stack)]
InForEach == stack # <<>> /\ top.i <= Len(top.lines)
instruction == top.lines[top.i]
keyword == instruction[1].w
dataParameter == Tail(instruction)

\* dataParameter[1] of the source (0-based): the referenced id, undefined if absent.
RefId(dp) == IF Len(dp) >= 2 THEN dp[2].w ELSE "undefined"

UsesLike(dp) == dp # <<>> /\ dp[1].w = "like"
checkAllowReferent(kw) == kw \in {"enter", "leave"}
UsesReferent(kw, dp) == dp # <<>> /\ dp[1].w \in Referents /\ checkAllowReferent(kw)

\* foundDataSource (lines 364-368), once the referenced entry is compiled.
foundDataSource(dp) ==
    IF UsesLike(dp) THEN Some(compilationMap[RefId(dp)]) ELSE None

\* foundDataValue with the exit forms reading the entry time only.
foundDataValue_EntryForExit(kw, dp) ==
    IF ~UsesReferent(kw, dp) THEN None
    ELSE LET ref == compilationMap[RefId(dp)] IN
         CASE dp[1].w \in {"with-entry", "with-exit"} -> Some(ref.enterAt)
           [] dp[1].w \in {"after-entry", "after-exit"} ->
                  Some(Plus(ref.enterAt, ParseInt(dp, 3)))

\* foundDataValue (lines 383-408), once the referenced entry is compiled.
foundDataValue(kw, dp) ==
    IF ~UsesReferent(kw, dp) THEN None
    ELSE LET ref == compilationMap[RefId(dp)] IN
         CASE dp[1].w = "with-entry" -> Some(ref.enterAt)
           [] dp[1].w = "with-exit" -> Some(Plus(ref.enterAt, ref.duration))
           [] dp[1].w = "after-entry" -> Some(Plus(ref.enterAt, ParseInt(dp, 3)))
           [] dp[1].w = "after-exit" ->
                  Some(Plus(Plus(ref.enterAt, ref.duration), ParseInt(dp, 3)))

\* case 'enter' (lines 411-429).
ApplyEnter(res, dp, fds, fdv) ==
    IF fds # None THEN [res EXCEPT !.enterAt = fds[1].enterAt]
    ELSE IF fdv # None THEN [res EXCEPT !.enterAt = fdv[1]]
    ELSE IF Len(dp) > 1 THEN res
    ELSE [res EXCEPT !.enterAt = ParseInt(dp, 1)]

\* case 'leave' (lines 430-449).
ApplyLeave(res, dp, fds, fdv) ==
    IF fds # None
    THEN [res EXCEPT !.duration =
              Minus(Plus(fds[1].enterAt, fds[1].duration), res.enterAt)]
    ELSE IF fdv # None THEN [res EXCEPT !.duration = Minus(fdv[1], res.enterAt)]
    ELSE IF Len(dp) > 1 THEN res
    ELSE [res EXCEPT !.enterAt = Minus(ParseInt(dp, 1), res.enterAt)]

\* case 'ease' (lines 450-470); the control values are integer literals here.
ApplyEase(res, isAbs, dp, fds) ==
    IF isAbs THEN res
    ELSE IF fds # None THEN [res EXCEPT !.yEasingCurve = fds[1].yEasingCurve]
    ELSE IF Len(dp) # 4 THEN res
    ELSE LET curve == [k \in 1..4 |-> ParseInt(dp, k)] IN
         [res EXCEPT !.yEasingCurve = curve,
                     !.scrollListeners.yEasingFunction = getEasingFunction(curve)]

\* The closures of lines 486-507: they read resultHere.opacityEasingCurve when
\* called, so they name the record; the second captured isAbsolute too.
OpacityEvaluator(id, isAbs, len) ==
    IF len = 4 THEN [kind |-> "opacity4", rec |-> id]
    ELSE [kind |-> "opacity8", rec |-> id, isAbsolute |-> isAbs]

\* case 'opacity-ease' (lines 471-512).
ApplyOpacityEase(res, id, isAbs, dp, fds) ==
    IF fds # None
    THEN [res EXCEPT !.opacityEasingCurve = fds[1].opacityEasingCurve,
                     !.scrollListeners.opacityEasingFunction =
                         fds[1].scrollListeners.opacityEasingFunction]
    ELSE IF Len(dp) # 4 /\ Len(dp) # 8 THEN res
    ELSE [res EXCEPT !.opacityEasingCurve = [k \in 1..Len(dp) |-> ParseInt(dp, k)],
                     !.scrollListeners.opacityEasingFunction =
                         OpacityEvaluator(id, isAbs, Len(dp))]

\* case 'duration' (lines 513-526).
ApplyDuration(res, dp, fds) ==
    IF fds # None THEN [res EXCEPT !.duration = fds[1].duration]
    ELSE IF Len(dp) > 1 THEN res
    ELSE [res EXCEPT !.duration = ParseInt(dp, 1)]

(***************************************************************************)
(* case 'x' / 'y' (lines 527-616), the form without ':'.  dataParameter may *)
(* be rebound to the value array of the referenced record (line 540): it is *)
(* then the same array object, so the frame keeps who owns the array       *)
(* ("self": resultHere's own) and reads it live.                           *)
(***************************************************************************)
AbsoluteKey(kw) == IF kw = "x" THEN "absoluteX" ELSE "absoluteY"

\* The array dataParameter is bound to, as it is now.
LiveData(f) ==
    IF f.owner = "self" THEN GetAxis(f.resultHere, f.absoluteKey).value[1]
    ELSE GetAxis(compilationMap[f.owner], f.absoluteKey).value[1]

\* dataParameter.slice(pipeIndex + 1, -1) (line 582).
EasingData(data, pipeIndex) == SubSeq(data, pipeIndex + 2, Len(data) - 1)

\* Whether lines 576-585 reach requestForProcessing(easingData[1]).
ReachesPipeRequest(data, pipeIndex) ==
    /\ IndexOf(data, "|") > -1
    /\ data[Len(data)].w = "|"
    /\ EasingData(data, pipeIndex) # <<>>
    /\ EasingData(data, pipeIndex)[1].w = "like"

\* prePipe[likeIndex + 1] (line 561) and easingData[1] (line 585).
likeRef(f) ==
    IF f.likeIndex + 2 <= Len(f.prePipe) THEN f.prePipe[f.likeIndex + 2].w
    ELSE "undefined"
pipeRef(f) == f.easingRef

\* The directive is over: on to the next iteration of the forEach.
NextDirective(f) ==
    [f EXCEPT !.i = @ + 1, !.pc = "start", !.absoluteKey = "absoluteX",
              !.owner = "self", !.prePipe = <<>>, !.likeIndex = -1, !.pipeIndex = -1,
              !.easingRef = "undefined"]

\* The closures of lines 545-546 and 600-614.  The first reads
\* resultHere[absoluteKey].destination when called; the second captured prePipe
\* and easingCurveHere.  The unit suffix (vw / vh) is left out of the outputs.
DestinationEvaluator(id, key) == [kind |-> "destination", rec |-> id, key |-> key]
PiecewiseEvaluator(prePipe, easingCurveHere) ==
    [kind |-> "piecewise", prePipe |-> prePipe, curve |-> easingCurveHere]

\* resultHere.scrollListeners[easingKey] = evaluator (lines 534, 545, 600).
SetListener(f, evaluator) ==
    IF f.absoluteKey = "absoluteX"
    THEN [f EXCEPT !.resultHere.scrollListeners.xEasingFunction = evaluator]
    ELSE [f EXCEPT !.resultHere.scrollListeners.yEasingFunction = evaluator]

\* After the like substitution (line 570 on); data is the array as it is then.
EasingStage(f, data) ==
    LET easingData == EasingData(data, f.pipeIndex) IN
    IF ReachesPipeRequest(data, f.pipeIndex)
    THEN [f EXCEPT !.pc = "pipe", !.easingRef = RefId(easingData)]
    ELSE IF IndexOf(data, "|") = -1
    THEN NextDirective(SetListener(f, PiecewiseEvaluator(f.prePipe, <<0, 0, 1, 1>>)))
    ELSE IF data[Len(data)].w # "|" THEN NextDirective(f)
    ELSE IF Len(easingData) = 4
    THEN NextDirective(SetListener(f, PiecewiseEvaluator(f.prePipe,
                           [k \in 1..4 |-> ParseInt(easingData, k)])))
    ELSE NextDirective(f)

(***************************************************************************)
(* case 'x' / 'y', the fully custom form (lines 617-800): the instruction   *)
(* contains ':'.  dataParameter is the initial position, '.', and then the  *)
(* clauses; a clause is modelled as one token, the match of                 *)
(* argSegmenterRegexp (line 650) with its groups: the time specifier        *)
(* (groups 1-4), the start and the end position (5-7, 8-10) and the easing  *)
(* (11-13), each the list of its tokens.  The text after '.' is well formed *)
(* (the residual of line 651 is empty).                                     *)
(***************************************************************************)
Clause(time, startPos, endPos, ease) ==
    [w |-> ":", n |-> 0, time |-> time, startPos |-> startPos, endPos |-> endPos,
     ease |-> ease]

\* instruction.includes(':') (line 550).
IncludesColon(dp) == \E k \in 1..Len(dp) : dp[k].w = ":"

\* The clauses: fullParameter (line 647) as matched at line 657.
segmentedArg(data) == SubSeq(data, 3, Len(data))

\* The ids a token list refers to with a leading relation or like word.
RefOf(tokens) ==
    IF Len(tokens) = 2 /\ tokens[1].w \in {"like", "with-exit", "with-entry"}
    THEN <<tokens[2].w>>
    ELSE <<>>

\* The ids one clause requests, in the order of its calls (lines 695, 731, 748).
ClauseRefs(c) == RefOf(c.time) \o RefOf(c.startPos) \o RefOf(c.endPos) \o RefOf(c.ease)

RECURSIVE CustomRefs(_)
\* The ids the forEach of line 664 requests, in the order of its calls.
CustomRefs(clauses) ==
    IF clauses = <<>> THEN <<>>
    ELSE ClauseRefs(clauses[1]) \o CustomRefs(Tail(clauses))

\* segmentHere.byTime (lines 676-715).
ByTime(time, latestTime, res) ==
    CASE Len(time) = 1 -> ParseInt(time, 1)
      [] time[1].w = "+" -> Plus(latestTime, ParseInt(time, 2))
      [] time[1].w \in {"like", "with-exit"} ->
             Minus(compilationMap[time[2].w].leaveAt, res.enterAt)
      [] time[1].w = "with-entry" ->
             Minus(compilationMap[time[2].w].enterAt, res.enterAt)

\* segmentHere.startPos / endPos (lines 717-742); lastPos when nothing is given
\* or the referenced record has no destination on this axis.
PosOf(pos, lastPos, key) ==
    CASE pos = <<>> -> lastPos
      [] Len(pos) = 1 -> ParseInt(pos, 1)
      [] OTHER -> LET res == GetAxis(compilationMap[pos[2].w], key).destination
                  IN IF res = None THEN lastPos ELSE res[1]

\* segmentHere.ease (lines 744-754); the control values are integer literals.
EaseOf(ease) ==
    IF ease[1].w = "like" THEN compilationMap[ease[2].w].yEasingCurve
    ELSE [k \in 1..Len(ease) |-> ParseInt(ease, k)]

RECURSIVE CompileSegments(_, _, _, _, _)
\* The forEach of lines 664-759: segments, in the order of the clauses.
CompileSegments(clauses, latestTime, lastPos, res, key) ==
    IF clauses = <<>> THEN <<>>
    ELSE LET c == clauses[1]
             segmentHere == [ byTime |-> ByTime(c.time, latestTime, res),
                              startPos |-> PosOf(c.startPos, lastPos, key),
                              endPos |-> PosOf(c.endPos, lastPos, key),
                              ease |-> EaseOf(c.ease) ]
         IN <<segmentHere>> \o CompileSegments(Tail(clauses), segmentHere.byTime,
                                               segmentHere.endPos, res, key)

RECURSIVE SortByTimeDescending(_)
\* segments.sort((a, b) => b.byTime - a.byTime) (line 761): stable, latest first.
SortByTimeDescending(segments) ==
    IF segments = <<>> THEN <<>>
    ELSE LET n == Len(segments)
             sorted == SortByTimeDescending(SubSeq(segments, 1, n - 1))
             k == Cardinality({ j \in 1..Len(sorted) :
                                    sorted[j].byTime >= segments[n].byTime })
         IN SubSeq(sorted, 1, k) \o <<segments[n]>> \o SubSeq(sorted, k + 1, Len(sorted))

\* The closure of lines 762-799: it captured segments and initialPos, and reads
\* resultHere.duration when called.
CustomEvaluator(id, segments, initialPos) ==
    [kind |-> "custom", rec |-> id, segments |-> segments, initialPos |-> initialPos]

\* Lines 617-802, the nested calls having returned.
ApplyCustom(f, data) ==
    IF Len(data) < 2 \/ data[2].w # "." THEN NextDirective(f)
    ELSE NextDirective(SetListener(f, CustomEvaluator(f.id,
             SortByTimeDescending(CompileSegments(segmentedArg(data), 0, 0,
                                                  f.resultHere, f.absoluteKey)),
             ParseInt(data, 1))))

\* dataParameter is undefined at line 543: the referenced record has no value on
\* this axis, and dataParameter.length throws.
AbsoluteThrows(kw, dp) ==
    /\ kw \in {"x", "y"}
    /\ UsesLike(dp)
    /\ GetAxis(compilationMap[RefId(dp)], AbsoluteKey(kw)).value = None

\* Lines 533-568 up to the call of line 561 (or to the end of the directive).
ApplyAbsolute(f, kw, dp) ==
    LET key == AbsoluteKey(kw)
        res1 == SetAxis(f.resultHere, key,
                        [GetAxis(f.resultHere, key) EXCEPT !.value = Some(dp)])
        own == IF UsesLike(dp) THEN RefId(dp) ELSE "self"
        data == IF UsesLike(dp) THEN GetAxis(compilationMap[own], key).value[1]
                ELSE dp
        pipeIndex == IndexOf(data, "|")
        prePipe == SubSeq(data, 1, IF pipeIndex > -1 THEN pipeIndex ELSE Len(data))
        likeIndex == IndexOf(prePipe, "like")
        g == [f EXCEPT !.resultHere = res1, !.absoluteKey = key, !.owner = own,
                       !.prePipe = prePipe, !.likeIndex = likeIndex,
                       !.pipeIndex = pipeIndex]
    IN IF Len(data) = 1
       THEN NextDirective(SetListener([g EXCEPT !.resultHere =
                SetAxis(res1, key, [GetAxis(res1, key) EXCEPT
                                        !.destination = Some(ParseInt(data, 1))])],
                DestinationEvaluator(f.id, key)))
       ELSE IF IncludesColon(dp) THEN ApplyCustom(g, data)
       ELSE IF likeIndex > -1 THEN [g EXCEPT !.pc = "like"]
       ELSE EasingStage(g, data)

\* One directive of the forEach, from its start to its first nested call that is
\* not a no-op (lines 347-803).  The records it reads are in compilationMap.
StartStep(f, kw, dp) ==
    LET fds == foundDataSource(dp)
        fdv == foundDataValue(kw, dp)
        res == f.resultHere
    IN CASE kw \notin KnownKeywords -> NextDirective(f)
         [] kw = "enter" ->
                NextDirective([f EXCEPT !.resultHere = ApplyEnter(res, dp, fds, fdv)])
         [] kw = "leave" ->
                NextDirective([f EXCEPT !.resultHere = ApplyLeave(res, dp, fds, fdv)])
         [] kw = "ease" ->
                NextDirective([f EXCEPT !.resultHere =
                                   ApplyEase(res, f.isAbsolute, dp, fds)])
         [] kw = "opacity-ease" ->
                NextDirective([f EXCEPT !.resultHere =
                                   ApplyOpacityEase(res, f.id, f.isAbsolute, dp, fds)])
         [] kw = "duration" ->
                NextDirective([f EXCEPT !.resultHere = ApplyDuration(res, dp, fds)])
         [] kw \in {"x", "y"} -> ApplyAbsolute(f, kw, dp)

\* Lines 563-566: the like pair is replaced, in the array dataParameter is bound
\* to, by the referenced record's single value.
LikeSubstitutes(f) ==
    LET res == GetAxis(compilationMap[likeRef(f)], f.absoluteKey).value
    IN res # None /\ Len(res[1]) = 1

SplicedData(f) ==
    Splice(LiveData(f), f.likeIndex, 2,
           GetAxis(compilationMap[likeRef(f)], f.absoluteKey).value[1])

\* resultHere after line 565, when the array is resultHere's own.
LikeStepFrame(f) ==
    IF LikeSubstitutes(f) /\ f.owner = "self"
    THEN [f EXCEPT !.resultHere =
              SetAxis(@, f.absoluteKey,
                      [GetAxis(@, f.absoluteKey) EXCEPT !.value = Some(SplicedData(f))])]
    ELSE f

\* compilationMap after line 565, when the array is another record's.
LikeStepMap(f) ==
    IF LikeSubstitutes(f) /\ f.owner # "self"
    THEN [compilationMap EXCEPT ![f.owner] =
              SetAxis(@, f.absoluteKey,
                      [GetAxis(@, f.absoluteKey) EXCEPT !.value = Some(SplicedData(f))])]
    ELSE compilationMap

\* Lines 562-568 and on, after the call of line 561 has returned.
LikeStep(f) ==
    EasingStage(LikeStepFrame(f),
                IF LikeSubstitutes(f) THEN SplicedData(f) ELSE LiveData(f))

\* Lines 586-616, after the call of line 585 has returned.
PipeStep(f) ==
    NextDirective(SetListener(f, PiecewiseEvaluator(f.prePipe,
                                     compilationMap[f.easingRef].yEasingCurve)))

\* Finalization that leaves leaveAt as the directives left it.
FinalizeResult_Stale(res) == res

\* Line 806.
FinalizeResult(res) == [res EXCEPT !.leaveAt = Plus(res.enterAt, res.duration)]

\* Line 807.
Insert(map, id, rec) ==
    [k \in DOMAIN map \cup {id} |-> IF k = id THEN rec ELSE map[k]]

\* Line 808.
RemoveEntry(es, id) == LET Keep(e) == e.name # id IN SelectSeq(es, Keep)

(***************************************************************************)
(* The calls of requestForProcessing.  Requested is the id the program is   *)
(* about to request: the driver's (line 812), or the innermost activation's *)
(* at lines 366 / 379, 561, 585 and 695 / 731 / 748.  A request for a       *)
(* compiled id returns at once (lines 293-295), so only the others change   *)
(* the state.                                                               *)
(***************************************************************************)
\* The directive's first request (lines 366, 379).
HeadRequest(kw, dp) ==
    IF kw \in KnownKeywords /\ (UsesLike(dp) \/ UsesReferent(kw, dp))
    THEN {RefId(dp)}
    ELSE {}

\* Whether the directive, its first request having returned, reaches the forEach
\* of line 664 over the clauses of dataParameter.
ReachesCustom(kw, dp) ==
    /\ kw \in {"x", "y"}
    /\ IncludesColon(dp)
    /\ ~UsesLike(dp)
    /\ Len(dp) >= 2
    /\ dp[2].w = "."

\* The request the forEach of line 664 is at: the first of its requests that
\* is not a no-op.
CustomRequest(dp) ==
    LET refs == CustomRefs(segmentedArg(dp))
        open == { k \in 1..Len(refs) : refs[k] \notin DOMAIN compilationMap }
    IN IF open = {} THEN {}
       ELSE {refs[CHOOSE k \in open : \A j \in open : k <= j]}

Requested ==
    IF stack = <<>>
    THEN IF entriesToProcess # <<>> THEN {entriesToProcess[1].name} ELSE {}
    ELSE IF ~InForEach THEN {}
    ELSE CASE top.pc = "start" ->
                  IF ReachesCustom(keyword, dataParameter)
                  THEN CustomRequest(dataParameter)
                  ELSE HeadRequest(keyword, dataParameter)
           [] top.pc = "like" -> {likeRef(top)}
           [] top.pc = "pipe" -> {pipeRef(top)}

Pending == Requested \ DOMAIN compilationMap

(***************************************************************************)
(* Numbers at evaluation time.  An evaluator is called with a fractional    *)
(* progress, so its arithmetic is modelled over exact fractions num / den   *)
(* in lowest terms with den >= 0; den = 0 gives the three special numbers   *)
(* Infinity (1/0), -Infinity (-1/0) and NaN (0/0).  Two more outcomes are   *)
(* not numbers of the model: Solved, the value the spline solver of         *)
(* BezierEasing (lines 43-122) returns strictly inside (0, 1) for a curve   *)
(* that is not linear, which the model does not compute, and Thrown, an     *)
(* exception that leaves the evaluator.  Rounding of doubles is left out.   *)
(***************************************************************************)
Abs(x) == IF x < 0 THEN -x ELSE x
Sign(x) == IF x < 0 THEN -1 ELSE IF x > 0 THEN 1 ELSE 0

RECURSIVE GCD(_, _)
GCD(a, b) == IF b = 0 THEN a ELSE GCD(b, a % b)

\* n / d in lowest terms, g being the greatest common divisor of n and d > 0.
Lowest(n, d, g) == [k |-> "number", num |-> n \div g, den |-> d \div g]

\* n / d as a number of the model, for d >= 0.
Reduce(n, d) ==
    IF d = 0 THEN [k |-> "number", num |-> Sign(n), den |-> 0]
    ELSE Lowest(n, d, GCD(Abs(n), d))

\* n / d as a number of the model.
Rat(n, d) == IF d < 0 THEN Reduce(-n, -d) ELSE Reduce(n, d)

QNaN == Rat(0, 0)
Solved == [k |-> "solved", num |-> 0, den |-> 0]
Thrown == [k |-> "thrown", num |-> 0, den |-> 0]

\* A compile-time integer (or the NaN of parseInt) as a number.
FromInt(n) == IF n = NaN THEN QNaN ELSE Rat(n, 1)

IsNumber(a) == a.k = "number"
IsNaN(a) == IsNumber(a) /\ a.num = 0 /\ a.den = 0
IsFinite(a) == IsNumber(a) /\ a.den > 0

\* The outcome of a binary operation one of whose operands is not a number.
Strict(a, b, v) ==
    IF a.k = "thrown" \/ b.k = "thrown" THEN Thrown
    ELSE IF a.k = "solved" \/ b.k = "solved" THEN Solved
    ELSE v

QNeg(a) == IF IsNumber(a) THEN Rat(-a.num, a.den) ELSE a
QAdd(a, b) ==
    Strict(a, b, IF a.den = 0 /\ b.den = 0
                 THEN (IF a.num = b.num THEN a ELSE QNaN)
                 ELSE Rat(a.num * b.den + b.num * a.den, a.den * b.den))
QSub(a, b) == QAdd(a, QNeg(b))
QMul(a, b) == Strict(a, b, Rat(a.num * b.num, a.den * b.den))
QDiv(a, b) ==
    Strict(a, b, IF a.den = 0 /\ b.den = 0 THEN QNaN
                 ELSE IF b.num < 0 THEN Rat(-(a.num * b.den), a.den * (-b.num))
                 ELSE Rat(a.num * b.den, a.den * b.num))

\* a <= b, a < b of numbers: false when either is NaN.
QLeq(a, b) ==
    /\ IsNumber(a) /\ IsNumber(b) /\ ~IsNaN(a) /\ ~IsNaN(b)
    /\ IF a.den = 0 /\ b.den = 0 THEN a.num <= b.num
       ELSE a.num * b.den <= b.num * a.den
QLt(a, b) == QLeq(a, b) /\ a # b

\* Math.floor and Math.min.
QFloor(a) == IF IsFinite(a) THEN Rat(a.num \div a.den, 1) ELSE a
QMin(a, b) ==
    IF IsNaN(a) \/ IsNaN(b) THEN QNaN ELSE IF QLeq(a, b) THEN a ELSE b

(***************************************************************************)
(* BezierEasing (lines 1-132) and Scrollomat.computeBezier (198-208).       *)
(***************************************************************************)
\* The argument checks of the constructor (lines 21-33) pass; a short list
\* leaves an argument undefined.
ValidCurve(curve) ==
    /\ Len(curve) >= 4
    /\ \A k \in 1..4 : curve[k] # NaN
    /\ curve[1] >= 0 /\ curve[1] <= 1
    /\ curve[3] >= 0 /\ curve[3] <= 1

\* mX1 === mY1 && mX2 === mY2 (line 126).
Linear(curve) == curve[1] = curve[2] /\ curve[3] = curve[4]

\* evaluate with the clamps tested before the linear case.
evaluate_ClampFirst(curve, aX) ==
    IF QLeq(aX, Rat(0, 1)) THEN Rat(0, 1)
    ELSE IF QLeq(Rat(1, 1), aX) THEN Rat(1, 1)
    ELSE IF Linear(curve) THEN aX
    ELSE Solved

\* BezierEasing.evaluate(aX) of a constructed curve (lines 124-131).
evaluate(curve, aX) ==
    IF Linear(curve) THEN aX
    ELSE IF QLeq(aX, Rat(0, 1)) THEN Rat(0, 1)
    ELSE IF QLeq(Rat(1, 1), aX) THEN Rat(1, 1)
    ELSE Solved

\* new BezierEasing(x1, y1, x2, y2).evaluate(t) (line 207).
NewAndEvaluate(curve, t) == IF ValidCurve(curve) THEN evaluate(curve, t) ELSE Thrown

\* Scrollomat.computeBezier(t, ...curve) (lines 198-208).
computeBezier(t, curve) ==
    IF ~IsNumber(t) THEN t
    ELSE IF QLeq(Rat(1, 1), t) THEN Rat(1, 1)
    ELSE IF QLeq(t, Rat(0, 1)) THEN Rat(0, 1)
    ELSE NewAndEvaluate(curve, t)

(***************************************************************************)
(* The evaluators, called with a progress t (lines 210-215, 319-327,        *)
(* 486-507, 545-546, 600-614, 762-799).  The outputs are the numbers the    *)
(* template strings format, without the unit.                               *)
(***************************************************************************)
\* entry.element.getBoundingClientRect().height / window.innerHeight * 100: the
\* height of an element, in hundredths of the window's.
HeightPercent == 50

\* The closure returned by getEasingFunction (lines 211-214).
EvalEase(ev, t) ==
    QSub(Rat(100, 1), QMul(computeBezier(t, ev.curve), Rat(100 + HeightPercent, 1)))

\* Lines 487-491.
EvalOpacity4(ev, t) == computeBezier(t, compilationMap[ev.rec].opacityEasingCurve)

\* Lines 498-506, extraT * 1.5 being shift.
Opacity8At(curve, t, shift) ==
    IF QLt(t, Rat(1, 2))
    THEN computeBezier(QSub(QMul(t, Rat(2, 1)), shift), curve)
    ELSE QSub(Rat(1, 1),
              computeBezier(QSub(QSub(QMul(t, Rat(2, 1)), Rat(1, 1)), shift),
                            SubSeq(curve, 5, Len(curve))))

\* Lines 493-507.
EvalOpacity8(ev, t) ==
    Opacity8At(compilationMap[ev.rec].opacityEasingCurve, t,
               QMul(IF ev.isAbsolute THEN Rat(0, 1) ELSE Rat(HeightPercent, 100),
                    Rat(3, 2)))

\* Lines 545-546.
EvalDestination(ev) ==
    LET destination == GetAxis(compilationMap[ev.rec], ev.key).destination
    IN IF destination = None THEN QNaN ELSE FromInt(destination[1])

\* parseInt(prePipe[index]) for a number index: undefined unless index is an index
\* of the array.
ParseIntAt(prePipe, index) ==
    IF IsFinite(index) /\ index.den = 1 /\ index.num >= 0 /\ index.num < Len(prePipe)
    THEN FromInt(ParseInt(prePipe, index.num + 1))
    ELSE QNaN

\* Lines 605-613: from + computeBezier(excess, ...easingCurveHere) * (to - from).
Interpolate(from, to, progress, curve) ==
    QAdd(from, QMul(computeBezier(progress, curve), QSub(to, from)))

\* Lines 602-613, interval and segment being known.
PiecewiseAt(ev, interval, segment) ==
    Interpolate(ParseIntAt(ev.prePipe, segment),
                ParseIntAt(ev.prePipe, QAdd(segment, Rat(1, 1))),
                QSub(interval, segment), ev.curve)

\* The segment taken as Math.floor(interval), not capped at the last one.
PiecewiseIn_Uncapped(ev, interval) == PiecewiseAt(ev, interval, QFloor(interval))

\* Lines 601-613, interval being known.
PiecewiseIn(ev, interval) ==
    PiecewiseAt(ev, interval, QMin(Rat(Len(ev.prePipe) - 2, 1), QFloor(interval)))

\* Lines 600-614.
EvalPiecewise(ev, t) == PiecewiseIn(ev, QMul(t, Rat(Len(ev.prePipe) - 1, 1)))

\* The least member of a set of positions, 0 for the empty set.
First(found) == IF found = {} THEN 0 ELSE CHOOSE k \in found : \A j \in found : k <= j

\* segments.findIndex(e => e.byTime <= absTime) (line 764): 1-based, 0 if none.
FindIndex(segments, absTime) ==
    First({ k \in 1..Len(segments) : QLeq(FromInt(segments[k].byTime), absTime) })

\* Math.max(1, x) (line 787).
AtLeastOne(x) == IF x = NaN THEN NaN ELSE IF x < 1 THEN 1 ELSE x

\* The checkpoint made up at lines 768-778.
InitialCheckpoint(initialPos) ==
    [byTime |-> 0, startPos |-> 0, endPos |-> initialPos, ease |-> <<0, 0, 1, 1>>]

\* lastCheckpoint after lines 765-780; index is 1-based, 0 if none was found.
LastCheckpoint(ev, index) ==
    IF index = 0 THEN InitialCheckpoint(ev.initialPos) ELSE ev.segments[index]

\* currentCheckpoint after lines 766-784.
CurrentCheckpoint(ev, index) ==
    IF index = 0
    THEN (IF ev.segments = <<>> THEN InitialCheckpoint(ev.initialPos)
          ELSE ev.segments[Len(ev.segments)])
    ELSE IF index = 1 THEN ev.segments[1]
    ELSE ev.segments[index - 1]

\* Lines 786-798.
CustomBetween(absTime, lastCheckpoint, currentCheckpoint) ==
    Interpolate(FromInt(currentCheckpoint.startPos), FromInt(currentCheckpoint.endPos),
                QDiv(QSub(absTime, FromInt(lastCheckpoint.byTime)),
                     FromInt(AtLeastOne(Minus(currentCheckpoint.byTime,
                                              lastCheckpoint.byTime)))),
                currentCheckpoint.ease)

\* Lines 764-798, the last checkpoint's index being known.
CustomFrom(ev, absTime, index) ==
    CustomBetween(absTime, LastCheckpoint(ev, index), CurrentCheckpoint(ev, index))

\* Lines 763-798, absTime being known.
CustomAt(ev, absTime) == CustomFrom(ev, absTime, FindIndex(ev.segments, absTime))

\* Lines 762-799.
EvalCustom(ev, t) == CustomAt(ev, QMul(t, FromInt(compilationMap[ev.rec].duration)))

\* evaluator(t).
Call(ev, t) ==
    CASE ev.kind = "zero" -> Rat(0, 1)
      [] ev.kind = "one" -> Rat(1, 1)
      [] ev.kind = "ease" -> EvalEase(ev, t)
      [] ev.kind = "opacity4" -> EvalOpacity4(ev, t)
      [] ev.kind = "opacity8" -> EvalOpacity8(ev, t)
      [] ev.kind = "destination" -> EvalDestination(ev)
      [] ev.kind = "piecewise" -> EvalPiecewise(ev, t)
      [] ev.kind = "custom" -> EvalCustom(ev, t)
(***************************************************************************)
(* Scenes: the raw entries compileScrollData is run on.                     *)
(***************************************************************************)
\* The most lines of the free entry of a timing scene.
MaxLines == 2
\* The call stack's capacity, in activations of requestForProcessing; it is larger
\* than the number of entries of any scene, so only a re-entered id exhausts it.
MaxDepth == 4

Ln(kw, params) == <<W(kw)>> \o params
Entry(name, text) == [name |-> name, instruction |-> text]
Absolute == <<W("!absolute")>>

\* The lines the free entry B of a timing scene is built from; Z names no entry.
TimingPool ==
    { Ln("enter", <<N(0)>>), Ln("enter", <<N(50)>>),
      Ln("enter", <<W("like"), W("A")>>),
      Ln("enter", <<W("with-entry"), W("A")>>),
      Ln("enter", <<W("with-exit"), W("A")>>),
      Ln("enter", <<W("after-entry"), W("A"), N(10)>>),
      Ln("enter", <<W("after-exit"), W("A"), N(10)>>),
      Ln("enter", <<W("like"), W("Z")>>),
      Ln("enter", <<W("with-exit"), W("Z")>>),
      Ln("enter", <<W("like"), W("B")>>),
      Ln("leave", <<N(100)>>),
      Ln("leave", <<W("like"), W("A")>>),
      Ln("leave", <<W("with-entry"), W("A")>>),
      Ln("leave", <<W("with-exit"), W("A")>>),
      Ln("leave", <<W("after-entry"), W("A"), N(10)>>),
      Ln("leave", <<W("after-exit"), W("A"), N(10)>>),
      Ln("duration", <<N(200)>>),
      Ln("duration", <<W("like"), W("A")>>),
      Ln("ease", <<W("like"), W("A")>>) }

\* The instructions of the entry A that B refers to.
ReferencedTexts ==
    { <<>>,
      << Ln("enter", <<N(0)>>), Ln("leave", <<N(100)>>) >>,
      << Ln("enter", <<N(50)>>), Ln("leave", <<N(150)>>) >>,
      << Ln("leave", <<N(150)>>), Ln("enter", <<N(50)>>) >>,
      << Ln("enter", <<N(50)>>), Ln("duration", <<N(200)>>) >>,
      << Ln("duration", <<N(200)>>), Ln("leave", <<W("with-exit"), W("B")>>) >>,
      << Ln("enter", <<W("like"), W("B")>>) >>,
      << Ln("ease", <<N(1), N(0), N(0), N(1)>>) >> }

\* A timing scene: A and B, in either document order.
TimingScene(ta, tb, aFirst) ==
    IF aFirst THEN << Entry("A", ta), Entry("B", tb) >>
    ELSE << Entry("B", tb), Entry("A", ta) >>

\* The instructions of entry id of an absolute scene, whose other entries are r, q.
AbsoluteTexts(r, q) ==
    { <<>>,
      << Absolute, Ln("x", <<N(30)>>) >>,
      << Absolute, Ln("x", <<N(10), N(20)>>) >>,
      << Absolute, Ln("x", <<W("like"), W(r)>>) >>,
      << Absolute, Ln("x", <<W("like"), W(q)>>) >>,
      << Absolute, Ln("x", <<N(10), W("like"), W(r)>>) >>,
      << Absolute, Ln("x", <<N(10), W("like"), W(q)>>) >>,
      << Absolute, Ln("x", <<N(10), W("like"), W(r), W("like"), W(q)>>) >>,
      << Absolute, Ln("x", <<N(10), W("like"), W(q), W("like"), W(r)>>) >>,
      << Absolute, Ln("x", <<N(10), N(20), W("|"), W("like"), W(r), W("|")>>) >>,
      << Absolute, Ln("x", <<N(10), N(20), W("|"), W("like"), W(q), W("|")>>) >> }

Orders ==
    { <<"A", "B", "C">>, <<"A", "C", "B">>, <<"B", "A", "C">>,
      <<"B", "C", "A">>, <<"C", "A", "B">>, <<"C", "B", "A">> }

AbsoluteScene(o, ta, tb, tc) ==
    [k \in 1..3 |-> Entry(o[k], CASE o[k] = "A" -> ta [] o[k] = "B" -> tb
                                     [] o[k] = "C" -> tc)]

(***************************************************************************)
(* The state machine.                                                       *)
(***************************************************************************)
\* element.style of an entry once loaded: top is '200vh' (line 231), the others
\* are not set.
Unset == [k |-> "unset", num |-> 0, den |-> 0]
NoCall == [fn |-> "none"]
NoReport == [maxHeight |-> NaN, compilationResult |-> <<>>, records |-> <<>>]
LoadedStyle == [display |-> "", top |-> Rat(200, 1), left |-> Unset, opacity |-> Unset]

\* The Scrollomat on the entries es, at the start of compileScrollData (lines
\* 186-196, 217-238, 288-291).
Loaded(es) ==
    /\ entries = es
    /\ compilationMap = [k \in {} |-> None]
    /\ entriesToProcess = es
    /\ stack = <<>>
    /\ status = "running"
    /\ maxHeight = 100
    /\ compilationResult = <<>>
    /\ currentScrollDistance = Unset
    /\ styles = [id \in { es[k].name : k \in 1..Len(es) } |-> LoadedStyle]
    /\ updates = 0
    /\ previous = NoReport

\* Lines 189, 288-291.
Init ==
    /\ \/ \E ta \in ReferencedTexts, n \in 0..MaxLines, aFirst \in BOOLEAN :
             \E tb \in [1..n -> TimingPool] : Loaded(TimingScene(ta, tb, aFirst))
       \/ \E o \in Orders, ta \in AbsoluteTexts("B", "C"),
             tb \in AbsoluteTexts("A", "C"), tc \in AbsoluteTexts("A", "B") :
             Loaded(AbsoluteScene(o, ta, tb, tc))
    /\ call = NoCall

\* requestForProcessing(id) for an id that is not compiled and has a raw entry
\* (lines 292-346): a new activation.
Push ==
    /\ status = "running"
    /\ \E id \in Pending :
          /\ Find(id) # None
          /\ Len(stack) < MaxDepth
          /\ stack' = Append(stack, NewFrame(Find(id)[1]))
    /\ UNCHANGED <<entries, compilationMap, entriesToProcess, status, maxHeight,
                   compilationResult, viewVars>>

\* requestForProcessing(id) for an id with no raw entry: entry is undefined and
\* entry.instruction (line 333) throws.
ThrowNoEntry ==
    /\ status = "running"
    /\ \E id \in Pending : Find(id) = None
    /\ status' = "TypeError"
    /\ UNCHANGED <<entries, compilationMap, entriesToProcess, stack, maxHeight,
                   compilationResult, viewVars>>

\* requestForProcessing(id) with the call stack exhausted.
ThrowStackOverflow ==
    /\ status = "running"
    /\ \E id \in Pending : Find(id) # None /\ Len(stack) >= MaxDepth
    /\ status' = "RangeError"
    /\ UNCHANGED <<entries, compilationMap, entriesToProcess, stack, maxHeight,
                   compilationResult, viewVars>>

\* dataParameter.length of undefined (line 543).
ThrowNoValue ==
    /\ status = "running"
    /\ InForEach
    /\ Pending = {}
    /\ top.pc = "start"
    /\ AbsoluteThrows(keyword, dataParameter)
    /\ status' = "TypeError"
    /\ UNCHANGED <<entries, compilationMap, entriesToProcess, stack, maxHeight,
                   compilationResult, viewVars>>

\* The innermost activation runs its directive on, to its next call or to its end.
Directive ==
    /\ status = "running"
    /\ InForEach
    /\ Pending = {}
    /\ ~(top.pc = "start" /\ AbsoluteThrows(keyword, dataParameter))
    /\ stack' = [stack EXCEPT ![Len(stack)] =
                    CASE top.pc = "start" -> StartStep(top, keyword, dataParameter)
                      [] top.pc = "like" -> LikeStep(top)
                      [] top.pc = "pipe" -> PipeStep(top)]
    /\ compilationMap' = IF top.pc = "like" THEN LikeStepMap(top) ELSE compilationMap
    /\ UNCHANGED <<entries, entriesToProcess, status, maxHeight, compilationResult,
                   viewVars>>

\* Lines 806-809: the activation's record is inserted and the activation returns.
Finalize ==
    /\ status = "running"
    /\ stack # <<>>
    /\ ~InForEach
    /\ compilationMap' = Insert(compilationMap, top.id, FinalizeResult(top.resultHere))
    /\ entriesToProcess' = RemoveEntry(entriesToProcess, top.id)
    /\ stack' = SubSeq(stack, 1, Len(stack) - 1)
    /\ compilationResult' = Append(compilationResult, top.id)
    /\ UNCHANGED <<entries, status, maxHeight, viewVars>>

\* Lines 815-819 and 272-273: the report, once the driver loop has ended.
Report ==
    /\ status = "running"
    /\ stack = <<>>
    /\ entriesToProcess = <<>>
    /\ status' = "done"
    /\ maxHeight' =
           Minus(MathMax({ Plus(compilationMap[id].enterAt, compilationMap[id].duration) :
                           id \in DOMAIN compilationMap }), 100)
    /\ UNCHANGED <<entries, compilationMap, entriesToProcess, stack,
                   compilationResult, viewVars>>

Next ==
    \/ Push
    \/ ThrowNoEntry
    \/ ThrowStackOverflow
    \/ ThrowNoValue
    \/ Directive
    \/ Finalize
    \/ Report

Spec == Init /\ [][Next]_vars

(***************************************************************************)
(* Scenes for the evaluators: A is referred to, B carries the directive     *)
(* under study.  Z names no entry.                                          *)
(***************************************************************************)
Linear4 == <<N(0), N(0), N(1), N(1)>>

EvaluatorReferencedTexts ==
    { <<>>,
      << Ln("duration", <<N(50)>>) >>,
      << Absolute, Ln("x", <<N(30)>>) >>,
      << Ln("enter", <<N(100)>>), Ln("duration", <<N(200)>>),
         Ln("ease", <<N(1), N(0), N(0), N(1)>>) >>,
      << Absolute, Ln("enter", <<N(100)>>), Ln("duration", <<N(300)>>),
         Ln("x", <<N(30)>>), Ln("y", <<N(0), N(60)>>) >> }

\* `x/y initialPos . with-exit A: - 50 | 0 0 1 1 |` and the like.
ReferenceTimed(kw, rel) ==
    Ln(kw, <<N(0), W("."), Clause(<<W(rel), W("A")>>, <<>>, <<N(50)>>, Linear4)>>)

EvaluatorTexts ==
    { << Absolute, Ln("x", <<N(10), W("like"), W("A")>>) >>,
      << Absolute, Ln("x", <<N(10), N(20)>>) >>,
      << Absolute, Ln("x", <<N(10), N(20), N(40), N(80)>>) >>,
      << Absolute, Ln("enter", <<N(100)>>), Ln("y", <<N(0), N(50), N(70)>>) >>,
      << Absolute, Ln("x", <<N(10), N(20), W("|"), N(1), N(0), N(0), N(1), W("|")>>) >>,
      << Absolute, Ln("x", <<N(10), N(20), W("|"), W("like"), W("A"), W("|")>>) >>,
      << Absolute,
         Ln("x", <<N(5), W("."), Clause(<<N(100)>>, <<>>, <<N(50)>>, Linear4)>>) >>,
      << Absolute,
         Ln("x", <<N(0), W("."), Clause(<<N(50)>>, <<>>, <<N(30)>>, Linear4),
                                 Clause(<<N(100)>>, <<>>, <<N(80)>>, Linear4)>>) >>,
      << Absolute,
         Ln("y", <<N(5), W("."), Clause(<<N(50)>>, <<N(10)>>, <<N(30)>>, Linear4),
                                 Clause(<<W("+"), N(50)>>, <<N(40)>>, <<N(80)>>,
                                        <<N(1), N(0), N(0), N(1)>>)>>) >>,
      << Absolute,
         Ln("x", <<N(0), W("."), Clause(<<N(50)>>, <<>>, <<W("like"), W("A")>>,
                                        <<W("like"), W("A")>>)>>) >>,
      << Absolute, ReferenceTimed("x", "with-exit"), Ln("enter", <<N(50)>>) >>,
      << Absolute, Ln("enter", <<N(50)>>), ReferenceTimed("x", "with-exit") >>,
      << Absolute, ReferenceTimed("x", "with-entry"), Ln("enter", <<N(50)>>) >>,
      << Absolute, ReferenceTimed("x", "like"), Ln("enter", <<N(50)>>) >>,
      << Absolute, ReferenceTimed("y", "with-exit"), Ln("enter", <<N(50)>>) >>,
      << Absolute, Ln("enter", <<N(100)>>), Ln("duration", <<N(100)>>),
         Ln("opacity-ease", <<N(0), N(0), N(1), N(1)>>) >>,
      << Ln("ease", <<N(2), N(0), N(1), N(1)>>) >>,
      << Ln("enter", <<N(100)>>), Ln("duration", <<N(200)>>),
         Ln("ease", <<N(2), N(0), N(1), N(1)>>) >>,
      << Ln("enter", <<N(100)>>), Ln("duration", <<N(200)>>),
         Ln("ease", <<N(1), N(0), N(0), N(1)>>) >>,
      << Ln("enter", <<N(100)>>), Ln("leave", <<W("with-entry"), W("B")>>) >>,
      << Ln("opacity-ease", <<N(0), N(0), N(1), N(1), N(0), N(0), N(1), N(1)>>) >>,
      << Ln("opacity-ease", <<W("like"), W("A")>>), Ln("ease", <<W("like"), W("A")>>) >>,
      << Absolute, Ln("x", <<W("like"), W("A")>>) >>,
      << Ln("enter", <<W("like"), W("Z")>>) >>,
      << Ln("enter", <<W("like"), W("B")>>) >>,
      << Absolute, Ln("duration", <<N(50)>>) >>,
      << Absolute, Ln("enter", <<N(150)>>), Ln("duration", <<N(100)>>) >>,
      << Absolute, Ln("y", <<N(0), N(50)>>), Ln("leave", <<W("with-exit"), W("A")>>),
         Ln("y", <<N(60)>>), Ln("enter", <<N(50)>>), Ln("leave", <<N(300)>>),
         Ln("x", <<N(10), N(20)>>) >>,
      << Ln("x", <<N(30)>>), Absolute, Ln("leave", <<N(300)>>), Ln("enter", <<N(50)>>) >> }

\* (-scrollPlaceholder.getBoundingClientRect().top) / window.innerHeight * 100
\* (line 243): how far the page is scrolled, in hundredths of the window height.
ScrollTops == {-50, 0, 50, 150, 250}

\* The most calls of update() in a behaviour.
MaxUpdates == 2

\* The progress values an evaluator is called with directly.
Progresses ==
    { Rat(0, 1), Rat(1, 4), Rat(1, 3), Rat(1, 2), Rat(2, 3), Rat(1, 1), Rat(3, 2) }

InitEvaluators ==
    /\ \E ta \in EvaluatorReferencedTexts, tb \in EvaluatorTexts, aFirst \in BOOLEAN :
          Loaded(TimingScene(ta, tb, aFirst))
    /\ call = NoCall

(***************************************************************************)
(* update() (lines 240-265), once mountToWatcher has compiled the scene.    *)
(***************************************************************************)
\* instruction.enterAt > S || S > instruction.leaveAt, of an absolute record.
Hidden(record, S) ==
    /\ record.isAbsolute
    /\ \/ QLt(S, FromInt(record.enterAt))
       \/ QLt(FromInt(record.leaveAt), S)

\* offset (line 256).
Offset(record, S) ==
    QDiv(QSub(S, FromInt(record.enterAt)), FromInt(record.duration))

\* Lines 257-259, the evaluators having returned these values: the assignments
\* up to the first evaluator that threw.
Assign(id, st, topValue, leftValue, opacityValue) ==
    IF topValue = Thrown THEN [styles |-> st, thrown |-> TRUE]
    ELSE IF leftValue = Thrown
    THEN [styles |-> [st EXCEPT ![id].top = topValue], thrown |-> TRUE]
    ELSE IF opacityValue = Thrown
    THEN [styles |-> [st EXCEPT ![id].top = topValue, ![id].left = leftValue],
          thrown |-> TRUE]
    ELSE [styles |-> [st EXCEPT ![id].top = topValue, ![id].left = leftValue,
                                ![id].opacity = opacityValue],
          thrown |-> FALSE]

\* Lines 256-259 on a record that is not hidden.
Evaluators(id, record, offset, st) ==
    Assign(id, st, Call(record.scrollListeners.yEasingFunction, offset),
                   Call(record.scrollListeners.xEasingFunction, offset),
                   Call(record.scrollListeners.opacityEasingFunction, offset))

\* The callback of the forEach (lines 246-264) on the record of id, the styles
\* being st: the styles at its end and whether an evaluator threw.
UpdateRecord(id, S, st) ==
    IF Hidden(compilationMap[id], S)
    THEN [styles |-> [st EXCEPT ![id].display = "none"], thrown |-> FALSE]
    ELSE Evaluators(id, compilationMap[id], Offset(compilationMap[id], S),
                    IF compilationMap[id].isAbsolute
                    THEN [st EXCEPT ![id].display = ""]
                    ELSE st)

\* The forEach of lines 246-264.  A callback changes the style of its own
\* element only, so the forEach is the callbacks up to the first that throws.
\* What each callback would do, by position in compilationResult:
Callbacks(S) ==
    [k \in 1..Len(compilationResult) |-> UpdateRecord(compilationResult[k], S, styles)]

\* The position of the first callback that throws, one past the end if none does.
FirstThrown(callbacks) ==
    First({ k \in DOMAIN callbacks : callbacks[k].thrown }
          \cup {Len(compilationResult) + 1})

\* The styles after the callbacks up to position last have run.
StylesAfter(callbacks, last) ==
    [id \in DOMAIN styles |->
        IF \E k \in DOMAIN callbacks : k <= last /\ compilationResult[k] = id
        THEN callbacks[CHOOSE k \in DOMAIN callbacks :
                           compilationResult[k] = id].styles[id]
        ELSE styles[id]]

\* An exception leaves update() and reaches its caller.
StatusAfterUpdate(thrown) == IF thrown THEN "Error" ELSE "done"

\* currentScrollDistance (lines 241-244), the page being scrolled by scrollTop.
ScrollDistance(scrollTop) == QMin(FromInt(maxHeight), Rat(scrollTop + 100, 1))

\* Lines 246-264, with their effect on the element styles.
ForEach(callbacks) ==
    /\ styles' = StylesAfter(callbacks, FirstThrown(callbacks))
    /\ status' = StatusAfterUpdate(FirstThrown(callbacks) <= Len(compilationResult))

\* update() with currentScrollDistance = S.
UpdateAt(S) ==
    /\ currentScrollDistance' = S
    /\ ForEach(Callbacks(S))

\* One call of update().  An exception of an evaluator leaves update(); the
\* model stops there.
Update ==
    /\ status = "done"
    /\ updates < MaxUpdates
    /\ \E scrollTop \in ScrollTops : UpdateAt(ScrollDistance(scrollTop))
    /\ updates' = updates + 1
    /\ UNCHANGED <<entries, compilationMap, entriesToProcess, stack, maxHeight,
                   compilationResult, call, previous>>

NextUpdate == Next \/ Update

SpecUpdate == InitEvaluators /\ [][NextUpdate]_vars

(***************************************************************************)
(* A direct call of an evaluator of compilationResult with a progress.      *)
(***************************************************************************)
ListenerKeys == {"xEasingFunction", "yEasingFunction", "opacityEasingFunction"}

Listener(id, key) ==
    CASE key = "xEasingFunction" -> compilationMap[id].scrollListeners.xEasingFunction
      [] key = "yEasingFunction" -> compilationMap[id].scrollListeners.yEasingFunction
      [] key = "opacityEasingFunction" ->
             compilationMap[id].scrollListeners.opacityEasingFunction

CallEvaluator ==
    /\ status = "done"
    /\ \E id \in DOMAIN compilationMap, key \in ListenerKeys, t \in Progresses :
          call' = [fn |-> key, rec |-> id, t |-> t,
                   returned |-> Call(Listener(id, key), t)]
    /\ UNCHANGED <<entries, compilationMap, entriesToProcess, stack, status, maxHeight,
                   compilationResult, currentScrollDistance, styles, updates, previous>>

NextEvaluators == Next \/ CallEvaluator

SpecEvaluators == InitEvaluators /\ [][NextEvaluators]_vars

(***************************************************************************)
(* Direct calls of BezierEasing and of Scrollomat.computeBezier.            *)
(***************************************************************************)
\* The control values and the arguments the calls are made with.
ControlValues == {NaN, 0, 1, 2}
Arguments ==
    { Rat(-1, 1), Rat(-1, 2), Rat(0, 1), Rat(1, 2), Rat(1, 1), Rat(3, 2),
      Rat(0, 0), Rat(1, 0), Rat(-1, 0) }

\* A call about to be made: the function, the curve and the argument.
InitBezier ==
    /\ Loaded(<<>>)
    /\ \E fn \in {"evaluate", "computeBezier"}, curve \in [1..4 -> ControlValues],
          t \in Arguments :
          call = [fn |-> fn, curve |-> curve, t |-> t, returned |-> Unset]

\* new BezierEasing(...curve).evaluate(aX).
Evaluate ==
    /\ call.fn = "evaluate"
    /\ call.returned = Unset
    /\ call' = [call EXCEPT !.returned = NewAndEvaluate(call.curve, call.t)]
    /\ UNCHANGED <<entries, compilationMap, entriesToProcess, stack, status, maxHeight,
                   compilationResult, currentScrollDistance, styles, updates, previous>>

\* Scrollomat.computeBezier(t, ...curve).
ComputeBezier ==
    /\ call.fn = "computeBezier"
    /\ call.returned = Unset
    /\ call' = [call EXCEPT !.returned = computeBezier(call.t, call.curve)]
    /\ UNCHANGED <<entries, compilationMap, entriesToProcess, stack, status, maxHeight,
                   compilationResult, currentScrollDistance, styles, updates, previous>>

NextBezier == Evaluate \/ ComputeBezier

SpecBezier == InitBezier /\ [][NextBezier]_vars

(***************************************************************************)
(* compileScrollData called again on the same Scrollomat (lines 288-291):   *)
(* its caller holds the report of the call before.                          *)
(***************************************************************************)
\* The locals with the first raw entry missing from the entries to process.
CompileLocals_FirstConsumed(es) ==
    [compilationMap |-> [k \in {} |-> None], entriesToProcess |-> Tail(es)]

\* const compilationMap = {}; let entriesToProcess = [...this.entries];
CompileLocals(es) ==
    [compilationMap |-> [k \in {} |-> None], entriesToProcess |-> es]

\* The CompilationReport of lines 815-819, as the caller keeps it.
CompilationReport ==
    [maxHeight |-> maxHeight, compilationResult |-> compilationResult,
     records |-> compilationMap]

\* A second call of compileScrollData, the first having returned.
Recompile ==
    /\ status = "done"
    /\ previous = NoReport
    /\ previous' = CompilationReport
    /\ compilationMap' = CompileLocals(entries).compilationMap
    /\ entriesToProcess' = CompileLocals(entries).entriesToProcess
    /\ stack' = <<>>
    /\ compilationResult' = <<>>
    /\ status' = "running"
    /\ UNCHANGED <<entries, maxHeight, currentScrollDistance, styles, updates, call>>

InitRecompile ==
    /\ \/ \E ta \in EvaluatorReferencedTexts, tb \in EvaluatorTexts, aFirst \in BOOLEAN :
             Loaded(TimingScene(ta, tb, aFirst))
       \/ \E o \in Orders, ta \in AbsoluteTexts("B", "C"),
             tb \in AbsoluteTexts("A", "C"), tc \in AbsoluteTexts("A", "B") :
             Loaded(AbsoluteScene(o, ta, tb, tc))
    /\ call = NoCall

NextRecompile == Next \/ Recompile

SpecRecompile == InitRecompile /\ [][NextRecompile]_vars

(***************************************************************************)
(* The same elements in another document order: loadCanvas (lines 217-223)  *)
(* pushes the entries in the order of canvas.children, and compileScrollData*)
(* runs on them.  The report of the compilation in the first order is kept  *)
(* for comparison.  Scenes of four absolute entries: C is referred to by B, *)
(* B by A and D.                                                            *)
(***************************************************************************)
ReorderTexts(id) ==
    CASE id = "C" -> { << Absolute, Ln("x", <<N(30)>>) >>,
                       << Absolute, Ln("x", <<N(10), N(20)>>) >>,
                       << Absolute >> }
      [] id = "B" -> { << Absolute, Ln("x", <<W("like"), W("C")>>) >>,
                       << Absolute, Ln("x", <<N(10), W("like"), W("C")>>) >>,
                       << Absolute, Ln("x", <<N(10), W("like"), W("C"),
                                              W("like"), W("C")>>) >>,
                       << Absolute, Ln("x", <<N(30)>>) >> }
      [] id = "A" -> { << Absolute, Ln("x", <<W("like"), W("B")>>) >>,
                       << Absolute, Ln("x", <<N(10), W("like"), W("B")>>) >>,
                       << Absolute, Ln("x", <<W("like"), W("C")>>) >> }
      [] id = "D" -> { << Absolute, Ln("x", <<W("like"), W("B")>>) >>,
                       << Absolute, Ln("x", <<W("like"), W("A")>>) >>,
                       << Absolute, Ln("x", <<N(10), N(20), W("|"),
                                              W("like"), W("B"), W("|")>>) >>,
                       << Absolute, Ln("x", <<W("like"), W("Z")>>) >>,
                       << Absolute, Ln("x", <<W("like"), W("D")>>) >> }

\* The entries es in every order.
Orderings(es) ==
    { [k \in 1..Len(es) |-> es[p[k]]] :
          p \in { q \in [1..Len(es) -> 1..Len(es)] :
                      \A i, j \in 1..Len(es) : q[i] = q[j] => i = j } }

InitReorder ==
    /\ \E ta \in ReorderTexts("A"), tb \in ReorderTexts("B"),
          tc \in ReorderTexts("C"), td \in ReorderTexts("D") :
          Loaded(<< Entry("A", ta), Entry("B", tb), Entry("C", tc), Entry("D", td) >>)
    /\ call = NoCall

\* The document reordered, loaded and compiled again.
Reorder ==
    /\ status = "done"
    /\ previous = NoReport
    /\ previous' = CompilationReport
    /\ \E es \in Orderings(entries) :
          /\ entries' = es
          /\ compilationMap' = CompileLocals(es).compilationMap
          /\ entriesToProcess' = CompileLocals(es).entriesToProcess
    /\ stack' = <<>>
    /\ compilationResult' = <<>>
    /\ status' = "running"
    /\ UNCHANGED <<maxHeight, currentScrollDistance, styles, updates, call>>

NextReorder == Next \/ Reorder

SpecReorder == InitReorder /\ [][NextReorder]_vars

(***************************************************************************)
(* Properties.                                                              *)
(***************************************************************************)
Names == { entries[k].name : k \in 1..Len(entries) }
TextOf(id) == entries[CHOOSE k \in 1..Len(entries) : entries[k].name = id].instruction
Compiled == DOMAIN compilationMap

\* `kw N` with an integer literal N, and `kw form ID ...`.
IsLiteral(l, kw) == Len(l) = 2 /\ l[1].w = kw /\ l[2].w = "#"
IsForm(l, kw, form, len) == Len(l) = len /\ l[1].w = kw /\ l[2].w = form /\ l[3].w # "#"

\* What `enter E; duration D;` compiles to.
EnterDurationRecord(E, D) ==
    FinalizeResult(ApplyDuration(ApplyEnter(DefaultResult(FALSE), <<N(E)>>, None, None),
                                 <<N(D)>>, None))

\* C1: `enter E; leave L;` with integer literals compiles to enterAt = E,
\* duration = L - E, leaveAt = L, the record of `enter E; duration L-E;`.
C1_EnterLeaveAsEnterDuration ==
    \A id \in Compiled :
        LET t == TextOf(id) IN
        (Len(t) = 2 /\ IsLiteral(t[1], "enter") /\ IsLiteral(t[2], "leave")) =>
            /\ compilationMap[id].enterAt = t[1][2].n
            /\ compilationMap[id].duration = t[2][2].n - t[1][2].n
            /\ compilationMap[id].leaveAt = t[2][2].n
            /\ compilationMap[id] = EnterDurationRecord(t[1][2].n, t[2][2].n - t[1][2].n)

\* C2: with A = `enter E; leave L;` and B = `enter with-exit A; duration D;`,
\* B.enterAt = L and B.leaveAt = L + D, in either document order.
C2_WithExitAfterLeave ==
    ("A" \in Names /\ "B" \in Compiled) =>
        LET ta == TextOf("A")
            tb == TextOf("B")
        IN (/\ Len(ta) = 2 /\ IsLiteral(ta[1], "enter") /\ IsLiteral(ta[2], "leave")
            /\ Len(tb) = 2 /\ tb[1] = Ln("enter", <<W("with-exit"), W("A")>>)
            /\ IsLiteral(tb[2], "duration")) =>
               /\ compilationMap["B"].enterAt = ta[2][2].n
               /\ compilationMap["B"].leaveAt = ta[2][2].n + tb[2][2].n

\* The value a leave directive resolves to, from the referenced record's compiled
\* fields.
ResolvedLeave(l) ==
    CASE IsLiteral(l, "leave") -> l[2].n
      [] IsForm(l, "leave", "like", 3) -> compilationMap[l[3].w].leaveAt
      [] IsForm(l, "leave", "with-entry", 3) -> compilationMap[l[3].w].enterAt
      [] IsForm(l, "leave", "with-exit", 3) -> compilationMap[l[3].w].leaveAt
      [] IsForm(l, "leave", "after-entry", 4) -> compilationMap[l[3].w].enterAt + l[4].n
      [] IsForm(l, "leave", "after-exit", 4) -> compilationMap[l[3].w].leaveAt + l[4].n

IsLeaveLine(l) == l[1].w = "leave"
IsDurationLine(l) == l[1].w = "duration"

\* C3: an entry with a leave and a duration directive, in either textual order and
\* for every form of leave, has duration = resolved leave value - enterAt.
C3_LeaveWinsOverDuration ==
    \A id \in Compiled :
        LET t == TextOf(id) IN
        (/\ Len(t) = 2
         /\ \E k \in 1..2 : IsLeaveLine(t[k]) /\ IsDurationLine(t[3 - k])) =>
            LET l == IF IsLeaveLine(t[1]) THEN t[1] ELSE t[2] IN
            compilationMap[id].duration =
                Minus(ResolvedLeave(l), compilationMap[id].enterAt)

\* The forms of enter C4 is about, and the value each sets, from the referenced
\* record's compiled fields.
IsEnterForm(dp) ==
    \/ Len(dp) = 1 /\ dp[1].w = "#"
    \/ Len(dp) = 2 /\ dp[1].w \in {"like", "with-entry", "with-exit"}
    \/ Len(dp) = 3 /\ dp[1].w \in {"after-entry", "after-exit"} /\ dp[3].w = "#"

EnterExpected(dp) ==
    CASE dp[1].w = "#" -> dp[1].n
      [] dp[1].w \in {"like", "with-entry"} -> compilationMap[dp[2].w].enterAt
      [] dp[1].w = "with-exit" -> compilationMap[dp[2].w].leaveAt
      [] dp[1].w = "after-entry" -> compilationMap[dp[2].w].enterAt + dp[3].n
      [] dp[1].w = "after-exit" -> compilationMap[dp[2].w].leaveAt + dp[3].n

\* The innermost activation is about to apply an enter directive of one of the
\* forms, its referenced entry compiled.
AtEnterDirective ==
    /\ status = "running"
    /\ InForEach
    /\ top.pc = "start"
    /\ keyword = "enter"
    /\ IsEnterForm(dataParameter)
    /\ Pending = {}

\* C4: an enter directive sets enterAt to the literal, or to the referenced
\* record's enterAt / enterAt / leaveAt / enterAt + N / leaveAt + N for like /
\* with-entry / with-exit / after-entry / after-exit, and leaves duration as it
\* was; the referenced record's enterAt, duration and leaveAt are final, no later
\* step changes them.
C4_EnterSetsEnterAt ==
    [][ /\ AtEnterDirective =>
            /\ Len(stack') = Len(stack)
            /\ stack'[Len(stack)].i = top.i + 1
            /\ stack'[Len(stack)].resultHere.enterAt = EnterExpected(dataParameter)
            /\ stack'[Len(stack)].resultHere.duration = top.resultHere.duration
        /\ \A id \in Compiled :
            /\ id \in DOMAIN compilationMap'
            /\ compilationMap'[id].enterAt = compilationMap[id].enterAt
            /\ compilationMap'[id].duration = compilationMap[id].duration
            /\ compilationMap'[id].leaveAt = compilationMap[id].leaveAt ]_vars

\* B = `enter after-exit A 10` is compiled, after an A that leaves later than it
\* enters.
C4_Witness ==
    /\ {"A", "B"} \subseteq Compiled
    /\ TextOf("B") = << Ln("enter", <<W("after-exit"), W("A"), N(10)>>) >>
    /\ compilationMap["A"].leaveAt # compilationMap["A"].enterAt
    /\ compilationMap["B"].enterAt = compilationMap["A"].leaveAt + 10

\* C5: every record in the compilation map has leaveAt = enterAt + duration.
C5_LeaveAtIsEnterPlusDuration ==
    \A id \in Compiled :
        compilationMap[id].leaveAt =
            Plus(compilationMap[id].enterAt, compilationMap[id].duration)

\* A record whose enterAt and duration both differ from the defaults is in the map.
C5_Witness ==
    \E id \in Compiled :
        /\ compilationMap[id].enterAt = 50
        /\ compilationMap[id].duration = 200
        /\ compilationMap[id].leaveAt = 250

\* C6: an entry with no directives compiles to enterAt = 0, duration = 100,
\* leaveAt = 100, not absolute.
C6_NoDirectivesDefaults ==
    \A id \in Compiled :
        TextOf(id) = <<>> =>
            /\ compilationMap[id].enterAt = 0
            /\ compilationMap[id].duration = 100
            /\ compilationMap[id].leaveAt = 100
            /\ compilationMap[id].isAbsolute = FALSE

\* An entry with no directives has been compiled, and the pass is over.
C6_Witness ==
    /\ status = "done"
    /\ \E id \in Compiled : TextOf(id) = <<>>

\* The ids an instruction refers to: the token after like or a referent.
RefsOfLine(l) ==
    { l[k + 1].w : k \in { j \in 1..(Len(l) - 1) : l[j].w \in Referents \cup {"like"} } }
RefsOf(text) == UNION { RefsOfLine(text[k]) : k \in 1..Len(text) }
Edges == { <<a, b>> \in Names \X Names : b \in RefsOf(TextOf(a)) }
Compose(R, S) ==
    { <<a, c>> \in Names \X Names : \E b \in Names : <<a, b>> \in R /\ <<b, c>> \in S }
Reaches == LET R2 == Edges \cup Compose(Edges, Edges) IN R2 \cup Compose(R2, Edges)
AllReferencesExist == \A a \in Names : RefsOf(TextOf(a)) \subseteq Names
Acyclic == \A a \in Names : <<a, a>> \notin Reaches
UniqueIds == Cardinality(Names) = Len(entries)

\* C7: for entries with unique ids, all references naming entries and no reference
\* cycle, compileScrollData ends with nothing pending and every id in the map.
C7_EveryEntryCompiled ==
    (UniqueIds /\ AllReferencesExist /\ Acyclic) =>
        /\ status \notin {"TypeError", "RangeError"}
        /\ status = "done" => (entriesToProcess = <<>> /\ Compiled = Names)

\* C8: a reference cycle is detected: no entry is re-entered while it is being
\* compiled, and the call stack is never exhausted.
C8_CycleDetected ==
    /\ status # "RangeError"
    /\ \A j, k \in 1..Len(stack) : stack[j].id = stack[k].id => j = k

\* C9: a reference to an id with no raw entry raises nothing: the directive is
\* dropped and compilation goes on.
C9_MissingReferenceRecovered ==
    ~(status = "TypeError" /\ \E id \in Pending : id \notin Names)

\* C10: no step of the pass changes a record that is in the compilation map.
C10_CompiledRecordsFrozen ==
    [][ \A id \in Compiled :
            id \in DOMAIN compilationMap' /\ compilationMap'[id] = compilationMap[id] ]_vars

(***************************************************************************)
(* Claims C11 - C20.                                                        *)
(***************************************************************************)
\* The innermost activation is about to run `ease like ID` of a non-absolute
\* entry, ID being compiled.
AtEaseLikeDirective ==
    /\ status = "running"
    /\ InForEach
    /\ Pending = {}
    /\ top.pc = "start"
    /\ keyword = "ease"
    /\ UsesLike(dataParameter)
    /\ ~top.isAbsolute

\* C16: after `ease like ID` on a non-absolute entry, the record's yEasingCurve
\* and the curve its yEasingFunction evaluates with both equal ID's yEasingCurve.
C16_EaseLikeUpdatesEvaluator ==
    [][ AtEaseLikeDirective =>
            LET curve == compilationMap[RefId(dataParameter)].yEasingCurve
                after == stack'[Len(stack)].resultHere
            IN /\ after.yEasingCurve = curve
               /\ after.scrollListeners.yEasingFunction = getEasingFunction(curve) ]_vars

\* C19: once the scene is compiled, maxHeight is the greatest enterAt + duration
\* of the compiled records, minus 100.
C19_MaxHeightIsLatestEndMinus100 ==
    status = "done" =>
        /\ \A id \in Compiled :
               compilationMap[id].enterAt + compilationMap[id].duration - 100 <= maxHeight
        /\ \E id \in Compiled :
               compilationMap[id].enterAt + compilationMap[id].duration - 100 = maxHeight

\* A compiled scene whose first compiled entry does not end last: A ends at 100,
\* B at 250.
C19_Witness ==
    /\ status = "done"
    /\ Compiled = {"A", "B"}
    /\ compilationMap["A"].enterAt + compilationMap["A"].duration = 100
    /\ compilationMap["B"].enterAt + compilationMap["B"].duration = 250
    /\ maxHeight = 150

\* The directive of entry id with keyword kw, if it has exactly one.
LinesOf(id, kw) == LET Is(l) == l[1].w = kw IN SelectSeq(TextOf(id), Is)

\* A direct call of the evaluator key of id with progress t has returned.
Called(id, key, t) == call.fn = key /\ call.rec = id /\ call.t = t

\* C11: in an x / y list of two or more positions, a `like ID` pair whose
\* referenced axis is a single fixed value is replaced by that value before the
\* evaluator is built: the positions the piecewise evaluator interpolates hold no
\* such pair, and `x 10 like A` with A = `x 30` evaluates from 10 to 30.
C11_LikePairsReplacedInEvaluator ==
    /\ \A id \in Compiled :
           LET ev == compilationMap[id].scrollListeners.xEasingFunction IN
           ev.kind = "piecewise" =>
               \A k \in 1..(Len(ev.prePipe) - 1) :
                   ~ /\ ev.prePipe[k].w = "like"
                     /\ ev.prePipe[k + 1].w \in Compiled
                     /\ compilationMap[ev.prePipe[k + 1].w].absoluteX.destination # None
    /\ \A t \in {Rat(0, 1), Rat(1, 2), Rat(1, 1)} :
           ( /\ status = "done"
             /\ TextOf("A") = << Absolute, Ln("x", <<N(30)>>) >>
             /\ TextOf("B") = << Absolute, Ln("x", <<N(10), W("like"), W("A")>>) >>
             /\ Called("B", "xEasingFunction", t) )
           => call.returned = QAdd(Rat(10, 1), QMul(t, Rat(20, 1)))

\* The tokens are all integer literals.
AllNumeric(tokens) == \A k \in 1..Len(tokens) : tokens[k].w = "#"

\* The keyword of the directive an evaluator key belongs to.
KeywordOf(key) == IF key = "xEasingFunction" THEN "x" ELSE "y"

\* The called evaluator is the one of the only x / y directive of its entry, and
\* that directive lists n >= 2 numeric values.
CalledOnNumericList ==
    /\ status = "done"
    /\ call.fn \in {"xEasingFunction", "yEasingFunction"}
    /\ Len(LinesOf(call.rec, KeywordOf(call.fn))) = 1
    /\ Len(LinesOf(call.rec, KeywordOf(call.fn))[1]) >= 3
    /\ AllNumeric(Tail(LinesOf(call.rec, KeywordOf(call.fn))[1]))

CalledOnCustom ==
    /\ status = "done"
    /\ call.fn \in {"xEasingFunction", "yEasingFunction"}
    /\ Listener(call.rec, call.fn).kind = "custom"
    /\ Listener(call.rec, call.fn).segments # <<>>
    /\ Len(LinesOf(call.rec, KeywordOf(call.fn))) = 1

\* progress * duration of the call.
ElapsedTime == QMul(call.t, FromInt(compilationMap[call.rec].duration))

\* The first clause of the directive, as written.  In the scenes the clauses are
\* written in chronological order.
FirstClause == LinesOf(call.rec, KeywordOf(call.fn))[1][4]

\* C13: when the elapsed time is earlier than every clause's end time, the custom
\* evaluator interpolates the chronologically first clause starting from
\* initialPos (its start being omitted): at progress 0 the output is initialPos.
C13_FirstClauseStartsAtInitialPos ==
    LET ev == Listener(call.rec, call.fn)
        first == ev.segments[Len(ev.segments)]
    IN ( /\ CalledOnCustom
         /\ FirstClause.startPos = <<>>
         /\ \A k \in 1..Len(ev.segments) :
                QLt(ElapsedTime, FromInt(ev.segments[k].byTime)) )
       => call.returned =
              Interpolate(FromInt(ev.initialPos), FromInt(first.endPos),
                          QDiv(ElapsedTime, FromInt(AtLeastOne(first.byTime))),
                          first.ease)

\* C14: when the elapsed time equals the end time of a clause, the last one
\* included, the custom evaluator returns that clause's end position.
C14_ClauseEndsAtItsTime ==
    CalledOnCustom =>
        LET ev == Listener(call.rec, call.fn)
        IN \A k \in 1..Len(ev.segments) :
               ElapsedTime = FromInt(ev.segments[k].byTime)
                   => call.returned = FromInt(ev.segments[k].endPos)

\* The time a reference time-spec names: the referenced record's leave time for
\* `like` and `with-exit`, its enter time for `with-entry`.
ReferencedTime(rel, id) ==
    IF rel = "with-entry" THEN compilationMap[id].enterAt
    ELSE compilationMap[id].leaveAt

\* C15: in a fully custom x / y directive a reference time-spec (`like ID`,
\* `with-entry ID`, `with-exit ID`) resolves to the referenced record's enter /
\* leave time minus this record's own final enterAt, wherever the x / y directive
\* stands relative to the `enter` directive.
C15_ReferenceTimeUsesFinalEnterAt ==
    (status = "done" /\ Compiled = {"A", "B"}) =>
        \A kw \in {"x", "y"}, rel \in {"like", "with-entry", "with-exit"} :
            LinesOf("B", kw) = <<ReferenceTimed(kw, rel)>> =>
                LET ev == Listener("B", IF kw = "x" THEN "xEasingFunction"
                                        ELSE "yEasingFunction")
                IN /\ ev.kind = "custom"
                   /\ Len(ev.segments) = 1
                   /\ ev.segments[1].byTime =
                          Minus(ReferencedTime(rel, "A"), compilationMap["B"].enterAt)

\* The next step applies an `ease` directive of a non-absolute entry whose four
\* literal values are not a curve BezierEasing accepts.
AtInvalidEaseDirective ==
    /\ status = "running" /\ InForEach /\ Pending = {}
    /\ top.pc = "start"
    /\ keyword = "ease"
    /\ ~top.isAbsolute
    /\ Len(dataParameter) = 4
    /\ ~UsesLike(dataParameter)
    /\ ~ValidCurve([k \in 1..4 |-> ParseInt(dataParameter, k)])

\* A step that is one call of update().
IsUpdate == updates' = updates + 1

\* C17: a directive supplying an invalid curve (e.g. `ease 2 0 1 1`) is dropped:
\* the record keeps its prior curve and evaluator, compilation goes on, and no
\* later call of update() raises an exception.
C17_InvalidCurveDropped ==
    [][ /\ AtInvalidEaseDirective =>
              LET before == top.resultHere
                  after == stack'[Len(stack)].resultHere
              IN /\ status' = "running"
                 /\ after.yEasingCurve = before.yEasingCurve
                 /\ after.scrollListeners.yEasingFunction =
                        before.scrollListeners.yEasingFunction
        /\ IsUpdate => status' = "done" ]_vars

\* A call of BezierEasing.evaluate on a curve the constructor accepts has returned.
EvaluateReturned ==
    /\ call.fn = "evaluate"
    /\ call.returned # Unset
    /\ ValidCurve(call.curve)

\* C18 as stated: for every valid curve, identity curves included, evaluate
\* returns exactly 0 for every progress <= 0 and exactly 1 for every progress >= 1.
C18_EvaluateClampsEveryCurve ==
    EvaluateReturned =>
        /\ QLeq(call.t, Rat(0, 1)) => call.returned = Rat(0, 1)
        /\ QLeq(Rat(1, 1), call.t) => call.returned = Rat(1, 1)

\* C18, amended: for every valid curve that is not linear, evaluate returns
\* exactly 0 for every progress <= 0 and exactly 1 for every progress >= 1; for a
\* linear curve (x1 = y1 and x2 = y2) it returns the progress unchanged, so
\* evaluate(0) = 0 and evaluate(1) = 1 for any curve; computeBezier returns
\* exactly 0 for progress <= 0 and 1 for progress >= 1 for every curve.
C18_EvaluateClampsUnlessLinear ==
    /\ EvaluateReturned =>
           /\ Linear(call.curve) => call.returned = call.t
           /\ ~Linear(call.curve) =>
                  /\ QLeq(call.t, Rat(0, 1)) => call.returned = Rat(0, 1)
                  /\ QLeq(Rat(1, 1), call.t) => call.returned = Rat(1, 1)
           /\ call.t = Rat(0, 1) => call.returned = Rat(0, 1)
           /\ call.t = Rat(1, 1) => call.returned = Rat(1, 1)
    /\ (call.fn = "computeBezier" /\ call.returned # Unset) =>
           /\ QLeq(call.t, Rat(0, 1)) => call.returned = Rat(0, 1)
           /\ QLeq(Rat(1, 1), call.t) => call.returned = Rat(1, 1)

C18_Witness ==
    /\ EvaluateReturned
    /\ call.curve = <<1, 0, 0, 1>>
    /\ call.t = Rat(3, 2)
    /\ call.returned = Rat(1, 1)

\* The record of id is out of its lifetime at scroll value S.
OutOfLifetime(id, S) ==
    \/ QLt(S, FromInt(compilationMap[id].enterAt))
    \/ QLt(FromInt(compilationMap[id].leaveAt), S)

\* (S - enterAt) / duration.
LocalProgress(id, S) ==
    QDiv(QSub(S, FromInt(compilationMap[id].enterAt)),
         FromInt(compilationMap[id].duration))

\* top, left and opacity of id are what its evaluators return at localProgress.
EvaluatorsApplied(id, S) ==
    /\ styles'[id].top = Call(Listener(id, "yEasingFunction"), LocalProgress(id, S))
    /\ styles'[id].left = Call(Listener(id, "xEasingFunction"), LocalProgress(id, S))
    /\ styles'[id].opacity =
           Call(Listener(id, "opacityEasingFunction"), LocalProgress(id, S))

\* C20: in update(), an absolute record is hidden exactly when S < enterAt or
\* S > leaveAt, and then top, left and opacity are left unchanged; otherwise it
\* is shown and its three evaluators are applied with localProgress =
\* (S - enterAt) / duration.  A non-absolute record is never hidden and always
\* has its evaluators applied.
C20_UpdateHidesOrApplies ==
    [][ IsUpdate =>
          \A id \in DOMAIN compilationMap :
              LET S == currentScrollDistance'
              IN IF compilationMap[id].isAbsolute
                 THEN IF OutOfLifetime(id, S)
                      THEN /\ styles'[id].display = "none"
                           /\ styles'[id].top = styles[id].top
                           /\ styles'[id].left = styles[id].left
                           /\ styles'[id].opacity = styles[id].opacity
                      ELSE /\ styles'[id].display = ""
                           /\ EvaluatorsApplied(id, S)
                 ELSE /\ styles'[id].display # "none"
                      /\ EvaluatorsApplied(id, S) ]_vars

(***************************************************************************)
(* Claims C21 - C26.                                                       *)
(***************************************************************************)

\* C21: on every invocation of update() the scroll value S that local progress
\* is computed from lies in [0, totalExtent + 100], totalExtent being maxHeight.
C21_ScrollValueInRange ==
    updates > 0 =>
        /\ QLeq(Rat(0, 1), currentScrollDistance)
        /\ QLeq(currentScrollDistance, FromInt(Plus(maxHeight, 100)))

\* The second compilation of the same entries has returned.
CompiledTwice == status = "done" /\ previous # NoReport

RawDirectives(id) ==
    IF TextOf(id) # <<>> /\ TextOf(id)[1] = Absolute THEN Tail(TextOf(id)) ELSE TextOf(id)

IsLeaveDirective(l) == l[1].w = "leave"
IsYDirective(l) == l[1].w = "y"
IsOtherDirective(l) == ~IsLeaveDirective(l) /\ ~IsYDirective(l)

\* The order the claim gives: the other directives, the `leave` directives, the
\* `y` directives, each group in textual order.
ClaimedOrder(id) ==
    SelectSeq(RawDirectives(id), IsOtherDirective)
        \o SelectSeq(RawDirectives(id), IsLeaveDirective)
        \o SelectSeq(RawDirectives(id), IsYDirective)

AtDirective ==
    /\ status = "running" /\ InForEach /\ Pending = {}
    /\ ~(top.pc = "start" /\ AbsoluteThrows(keyword, dataParameter))

Range(seq) == { seq[k] : k \in 1..Len(seq) }

\* The entries whose records that step reads from the compilation map: the
\* like / with-* / after-* reference of the directive, the references of the
\* clauses of a custom form, the `like` of a value list or of its easing.
ReadFromMap ==
    CASE top.pc = "start" ->
             HeadRequest(keyword, dataParameter)
                 \cup (IF ReachesCustom(keyword, dataParameter)
                       THEN Range(CustomRefs(segmentedArg(dataParameter)))
                       ELSE {})
      [] top.pc = "like" -> {likeRef(top)}
      [] top.pc = "pipe" -> {pipeRef(top)}

\* The record of y is in the map, finalized, and y was inserted.
Finalized(y) ==
    /\ y \in DOMAIN compilationMap
    /\ compilationMap[y].leaveAt =
           Plus(compilationMap[y].enterAt, compilationMap[y].duration)
    /\ y \in Range(compilationResult)

\* C24: whenever the compilation of an entry X reads a field of another entry Y
\* from the compilation map, Y has been fully compiled and finalized (inserted
\* with leaveAt = enterAt + duration) while X is not inserted yet, so Y is
\* inserted before X; a record is inserted only by its finalization, and the
\* insertions of one compilation keep their order.
C24_ReferencedCompiledFirst ==
    [][ /\ AtDirective =>
              /\ top.id \notin DOMAIN compilationMap
              /\ \A y \in ReadFromMap : Finalized(y)
        /\ \A y \in DOMAIN compilationMap' \ DOMAIN compilationMap :
              /\ stack # <<>> /\ y = top.id /\ ~InForEach
              /\ compilationResult' = Append(compilationResult, y)
              /\ compilationMap'[y].leaveAt =
                     Plus(compilationMap'[y].enterAt, compilationMap'[y].duration)
        /\ (status' = "running" /\ previous' = previous) =>
              \A k \in 1..Len(compilationResult) :
                  k <= Len(compilationResult') /\ compilationResult'[k] = compilationResult[k]
      ]_vars

\* B, first in the document, is about to read the record of A, which its own
\* request compiled, C being untouched yet.
C24_Witness ==
    /\ AtDirective
    /\ entries[1].name = "B"
    /\ top.id = "B"
    /\ Len(stack) = 1
    /\ ReadFromMap = {"A"}
    /\ Finalized("A")
    /\ compilationResult = <<"A">>

\* The evaluators of a and b return the same outputs at every progress tried.
EquivalentEvaluators(a, b) ==
    \A key \in ListenerKeys, t \in Progresses :
        Call(Listener(a, key), t) = Call(Listener(b, key), t)

\* C25: the compiled record of each entry is independent of the document order
\* (compiling the same entries in another order gives the same record per id),
\* and two entries with the same directive text compile to the same axis data
\* (value list, destination) and equivalent evaluators.
C25_OrderIndependent ==
    status = "done" =>
        /\ previous # NoReport => compilationMap = previous.records
        /\ \A a, b \in DOMAIN compilationMap :
               TextOf(a) = TextOf(b) =>
                   /\ compilationMap[a].absoluteX = compilationMap[b].absoluteX
                   /\ compilationMap[a].absoluteY = compilationMap[b].absoluteY
                   /\ EquivalentEvaluators(a, b)

\* The scroll values update() can use on the compiled scene, over raw scroll
\* positions from three window heights before the start to beyond every record's
\* end (all times of the scenes lie within).
ScrollValues == { ScrollDistance(scrollTop) : scrollTop \in (-300)..600 }

\* C26: every compiled record's lifetime is reachable by scrolling: for every
\* record with duration > 0 some scroll position gives a scroll value S with
\* enterAt <= S <= leaveAt, some scroll position gives S = leaveAt (local
\* progress 1), and an absolute record is shown at some scroll position.
C26_LifetimeReachable ==
    status = "done" =>
        \A id \in DOMAIN compilationMap :
            LET record == compilationMap[id] IN
            (record.enterAt # NaN /\ record.duration # NaN /\ record.duration > 0) =>
                /\ \E S \in ScrollValues :
                       /\ QLeq(FromInt(record.enterAt), S)
                       /\ QLeq(S, FromInt(record.leaveAt))
                /\ \E S \in ScrollValues : S = FromInt(record.leaveAt)
                /\ record.isAbsolute => \E S \in ScrollValues : ~Hidden(record, S)

====
